---- MODULE Spec2Model ----
(***************************************************************************)
(* Multi-method manuscript evaluation of LADI-backend:                     *)
(*   evaluate_document / perform_multi_method_evaluation                   *)
(*       (src/app/routes/upload_routes.py)                                 *)
(*   GPTEvaluator       (src/app/services/gpt_evaluator.py)                *)
(*   TemplateEvaluator  (src/app/services/template_evaluator.py)           *)
(* One request is followed from text extraction to the final status of its *)
(* Evaluation record.  The model service, the template store and the       *)
(* 8-minute timer are the environment.                                     *)
(***************************************************************************)
EXTENDS Integers, Sequences, FiniteSets, TLC

VARIABLES
    methods,          \* evaluation_methods of the request
    templates,        \* selected_templates of the request
    hasClient,        \* GPTEvaluator.client is not None
    textLen,          \* len(text_content.strip()) of the extracted text
    pc,               \* position of the request handler
    mi, ti, ci,       \* loop positions: method, template, category
    curKeys,          \* category ids of the prompt map being evaluated
    partial,          \* per-category results of the method in progress
    heap,             \* the result dict objects created so far, by identity
    all_results,      \* method key -> identity of its result object (0: none)
    combined,         \* category -> identity of the dict stored for it (0: none)
    timeout_occurred, \* the nonlocal flag of perform_multi_method_evaluation
    timer,            \* threading.Timer: idle, armed, fired, cancelled
    outcome,          \* how perform_multi_method_evaluation ended
    result,           \* the returned result object
    evaluation,       \* the Evaluation record
    lastRun,          \* the latest run of GPTEvaluator._evaluate_category
    odd,              \* category evaluations that deviated from the baseline
    produced,         \* history: scores as the evaluators produced them
    log,              \* history: the contributions merged, in order
    firedPhase,       \* history: when the timer fired
    lateStart,        \* history: evaluation steps begun with the flag set
    skipped,          \* history: the templates passed over, and why
    \* two requests running the template loop at the same time
    rtemplates,       \* request -> its selected_templates
    rpc,              \* request -> position in the template loop
    rti,              \* request -> position in selected_templates
    tempFile,         \* template id -> state of temp_template_<id>.xlsx
    orphan,           \* request -> its open file was unlinked under it
    contributed,      \* request -> template ids merged into its result
    \* one run of the template prompt resolver
    workbook,         \* the sheets of the spreadsheet, in workbook order
    prompts,          \* the prompt map returned for it
    resolved          \* parse_template_file has returned

jobVars == <<methods, templates, hasClient, textLen, pc, mi, ti, ci, curKeys,
             partial, heap, all_results, combined, timeout_occurred, timer,
             outcome, result, evaluation, lastRun, odd, produced, log,
             firedPhase, lateStart, skipped>>

raceVars == <<rtemplates, rpc, rti, tempFile, orphan, contributed>>

resolverVars == <<workbook, prompts, resolved>>

vars == <<jobVars, raceVars, resolverVars>>

----------------------------------------------------------------------------
(* Program constants *)

\* GPTEvaluator.evaluation_categories, in insertion order
Categories ==
    <<"line-editing", "plot", "character", "flow", "worldbuilding", "readiness">>

CategorySet == {Categories[i] : i \in 1..Len(Categories)}

max_retries == 3
retry_delay == 2
FallbackScore == 75
MinExtractChars == 50
MinEvalChars == 100

\* GPTEvaluator._generate_mock_evaluation: the fixed scores
MockScore(c) ==
    CASE c = "line-editing"  -> 85
      [] c = "plot"          -> 78
      [] c = "character"     -> 92
      [] c = "flow"          -> 80
      [] c = "worldbuilding" -> 88
      [] c = "readiness"     -> 84

\* TemplateEvaluator._get_mock_evaluation_result: random.randint(lo, hi)
MockRange(c) ==
    CASE c = "line-editing"  -> <<70, 90>>
      [] c = "plot"          -> <<65, 85>>
      [] c = "character"     -> <<60, 80>>
      [] c = "flow"          -> <<70, 85>>
      [] c = "worldbuilding" -> <<75, 90>>
      [] c = "readiness"     -> <<65, 85>>

----------------------------------------------------------------------------
(* Bounds of the model *)

\* at most MaxOdd category evaluations of a job deviate from the baseline
\* outcome (the first element of the outcome set of the step)
MaxOdd == 2

\* the draws of random.randint(lo, hi) followed: those less than
\* MaxMockSpread away from lo or from hi
MaxMockSpread == 2

\* stands for a JSON score that is not a number (a string such as "85",
\* or null): _evaluate_category stores it as it came
NonNumber == -1

\* scores a JSON response may carry; the first is the baseline, 150 is out
\* of the range the prompt asks for
ScoreChoices == <<70, 50, 150, NonNumber>>

\* the requests followed: evaluation_methods and selected_templates
JobShapes ==
    { [m |-> <<"basic">>,             t |-> <<>>],
      [m |-> <<"template">>,          t |-> <<1>>],
      [m |-> <<"basic", "template">>, t |-> <<1>>],
      [m |-> <<"template", "basic">>, t |-> <<1, 2>>],
      [m |-> <<"custom", "template">>, t |-> <<>>] }

\* stands for a document the parser cannot read: there is no text
Unreadable == -1

\* the documents followed: the trimmed length of their text, or Unreadable
TextLens == {Unreadable, 40, 60, 120}

\* prompt maps a template spreadsheet may resolve to (keys in sheet order)
PromptKeySeqs == { <<"plot", "line-editing">>, Categories }

----------------------------------------------------------------------------
(* Pure functions *)

\* Python's round(num / den) for den > 0: nearest integer, ties to even
PyRound(num, den) ==
    LET q == num \div den
        r == num % den
    IN  IF 2 * r < den THEN q
        ELSE IF 2 * r > den THEN q + 1
        ELSE IF q % 2 = 0 THEN q ELSE q + 1

\* mutant: ties rounded up
MergeScoreHalfUp(existing_score, new_score) ==
    (existing_score + new_score + 1) \div 2

\* round((existing_score + new_score) / 2)
MergeScore(existing_score, new_score) == PyRound(existing_score + new_score, 2)

RECURSIVE SumSeq(_)
SumSeq(s) == IF s = <<>> THEN 0 ELSE Head(s) + SumSeq(Tail(s))

\* mutant: integer division in place of round
OverallScoreFloor(scores) ==
    IF scores = <<>> THEN 0 ELSE SumSeq(scores) \div Len(scores)

\* round(sum(scores) / len(scores)) if scores else 0
OverallScore(scores) ==
    IF scores = <<>> THEN 0 ELSE PyRound(SumSeq(scores), Len(scores))

\* a column of the Evaluation record: <<>> is None, <<v>> holds v
NullColumns == [c \in CategorySet |-> <<>>]

\* valid_scores = [score for score in scores if score is not None], from
\* category number i on
RECURSIVE ValidScoresFrom(_, _)
ValidScoresFrom(columns, i) ==
    IF i > Len(Categories) THEN <<>>
    ELSE columns[Categories[i]] \o ValidScoresFrom(columns, i + 1)

\* the variant that rounds a tie up
CalculateOverallScoreHalfUp(columns, overall_score) ==
    LET valid_scores == ValidScoresFrom(columns, 1) IN
    IF valid_scores # <<>>
    THEN <<(2 * SumSeq(valid_scores) + Len(valid_scores))
               \div (2 * Len(valid_scores))>>
    ELSE overall_score

\* Evaluation.calculate_overall_score: the column is assigned only when some
\* category column is not None
CalculateOverallScore(columns, overall_score) ==
    LET valid_scores == ValidScoresFrom(columns, 1) IN
    IF valid_scores # <<>>
    THEN <<PyRound(SumSeq(valid_scores), Len(valid_scores))>>
    ELSE overall_score

\* a category result dict; present = FALSE stands for a missing key
Absent == [present |-> FALSE, score |-> 0, summary |-> "", status |-> ""]
Res(score, summary, status) ==
    [present |-> TRUE, score |-> score, summary |-> summary, status |-> status]

NoResults == [c \in CategorySet |-> Absent]

\* responses of the model service to one request; the score of a text
\* response is the number a scan of it finds next to the word 'score', 0 when
\* there is none
Raise == [kind |-> "raise", score |-> 0]
Json(s) == [kind |-> "json", score |-> s]
Text == [kind |-> "text", score |-> 0]

\* the result dict built from a JSON response
JsonResult(resp) == Res(resp.score, "model", "completed")

\* the result dict built when json.loads fails
FallbackResult == Res(FallbackScore, "raw", "completed")

\* mutant: the default score in place of the failed result
FailedResultAsFallback == Res(FallbackScore, "raw", "completed")

\* the result dict returned after the last failed attempt
FailedResult == Res(0, "error", "failed")

\* the variant that gives up after the second attempt
ShouldRetryOnce(attempt) == attempt < 1

\* the wait after failed attempt number attempt (0-based), if it is not the last
ShouldRetry(attempt) == attempt < max_retries - 1

\* mutant: no backoff
NextDelayConstant(delay) == delay

\* retry_delay *= 2
NextDelay(delay) == delay * 2

\* GPTEvaluator._evaluate_category on a script of responses, one per attempt
RECURSIVE EvaluateCategory(_, _, _, _)
EvaluateCategory(script, attempt, delay, sleeps) ==
    LET resp == script[attempt + 1] IN
    IF resp.kind = "json"
    THEN [result |-> JsonResult(resp), requests |-> attempt + 1,
          sleeps |-> sleeps]
    ELSE IF resp.kind = "text"
    THEN [result |-> FallbackResult, requests |-> attempt + 1,
          sleeps |-> sleeps]
    ELSE IF ShouldRetry(attempt)
    THEN EvaluateCategory(script, attempt + 1, NextDelay(delay),
                          Append(sleeps, delay))
    ELSE [result |-> FailedResult, requests |-> attempt + 1,
          sleeps |-> sleeps]

\* GPTEvaluator._generate_mock_evaluation()['categories']
MockEvaluation == [c \in CategorySet |-> Res(MockScore(c), "mock", "completed")]

\* the end of _perform_comprehensive_evaluation: sum(scores.values()) raises
\* TypeError when a stored score is not a number, and the except clause
\* returns _generate_mock_evaluation() in place of the results
ComprehensiveResult(results) ==
    IF \E c \in CategorySet : results[c].present /\ results[c].score = NonNumber
    THEN MockEvaluation
    ELSE results

\* whether producing a synthetic result writes a log event. The basic
\* method: _perform_comprehensive_evaluation calls logger.error before it
\* returns the mock evaluation, without a client and in its except clause.
\* A template: without a client _evaluate_category_with_prompt returns the
\* mock result without logging; with a client its except clause calls
\* logger.error with the exception, for every category, and then returns
\* the mock result (the event does not say that the result is synthetic)
MockLogged(key, client, results) ==
    IF key = "basic"
    THEN ~client \/ ComprehensiveResult(results) # results
    ELSE client

\* TemplateEvaluator._get_mock_evaluation_result: no status key
TemplateMockResult(c, score) == Res(score, "mock", "none")

----------------------------------------------------------------------------
(* The environment's choices *)

\* scripts of the model service for one category: the attempts before the
\* last raise, the last one answers or raises too
Terminals == {Json(ScoreChoices[i]) : i \in 1..Len(ScoreChoices)} \cup {Text}
BaseScript == <<Json(ScoreChoices[1])>>
Scripts ==
    {<<t>> : t \in Terminals} \cup {<<Raise>> \o BaseScript}
        \cup {<<Raise, Raise, t>> : t \in {Json(ScoreChoices[1]), Raise}}

\* what the lookup, download and parse of one template may give
TemplateLoads ==
    {[ok |-> FALSE, why |-> w, keys |-> <<>>] :
        w \in {"not_found", "storage_error", "parse_error"}}
    \cup {[ok |-> TRUE, why |-> "", keys |-> k] : k \in PromptKeySeqs}

\* keys of all_results
TemplateKey(id) == IF id = 1 THEN "template_1" ELSE "template_2"
MethodKeys == {"basic", "template_1", "template_2"}

NoRun == [path |-> "none", script |-> <<>>, raised |-> FALSE, result |-> Absent,
          requests |-> 0, attempts |-> 0, sleeps |-> <<>>]

----------------------------------------------------------------------------
(* State *)

\* the two concurrent requests of the temp-file model
Requests == {1, 2}

\* no second request is running
RaceIdle ==
    /\ rtemplates = [r \in Requests |-> <<>>]
    /\ rpc = [r \in Requests |-> "idle"]
    /\ rti = [r \in Requests |-> 1]
    /\ tempFile = [t \in {1, 2} |-> "absent"]
    /\ orphan = [r \in Requests |-> FALSE]
    /\ contributed = [r \in Requests |-> <<>>]

\* no template spreadsheet is being resolved
ResolverIdle ==
    /\ workbook = <<>>
    /\ prompts = [keys |-> <<>>, text |-> <<>>]
    /\ resolved = FALSE

Init ==
    /\ RaceIdle
    /\ ResolverIdle
    /\ \E j \in JobShapes : methods = j.m /\ templates = j.t
    /\ hasClient \in BOOLEAN
    /\ textLen \in TextLens
    /\ pc = "extract"
    /\ mi = 1 /\ ti = 1 /\ ci = 1
    /\ curKeys = <<>>
    /\ partial = NoResults
    /\ heap = <<>>
    /\ all_results = [k \in MethodKeys |-> 0]
    /\ combined = [c \in CategorySet |-> 0]
    /\ timeout_occurred = FALSE
    /\ timer = "idle"
    /\ outcome = "none"
    /\ result = [returned |-> FALSE, overall_score |-> 0]
    /\ evaluation = [status |-> "processing", evaluation_results |-> FALSE,
                     error |-> "none", columns |-> NullColumns,
                     overall_score |-> <<>>]
    /\ lastRun = NoRun
    /\ odd = 0
    /\ produced = <<>>
    /\ log = <<>>
    /\ firedPhase = "never"
    /\ lateStart = [category |-> FALSE, step |-> FALSE]
    /\ skipped = <<>>

\* the request of the single-job model has not started
JobIdle ==
    /\ methods = <<>> /\ templates = <<>>
    /\ hasClient = FALSE
    /\ textLen = 0
    /\ pc = "idle"
    /\ mi = 1 /\ ti = 1 /\ ci = 1
    /\ curKeys = <<>>
    /\ partial = NoResults
    /\ heap = <<>>
    /\ all_results = [k \in MethodKeys |-> 0]
    /\ combined = [c \in CategorySet |-> 0]
    /\ timeout_occurred = FALSE
    /\ timer = "idle"
    /\ outcome = "none"
    /\ result = [returned |-> FALSE, overall_score |-> 0]
    /\ evaluation = [status |-> "processing", evaluation_results |-> FALSE,
                     error |-> "none", columns |-> NullColumns,
                     overall_score |-> <<>>]
    /\ lastRun = NoRun
    /\ odd = 0
    /\ produced = <<>>
    /\ log = <<>>
    /\ firedPhase = "never"
    /\ lateStart = [category |-> FALSE, step |-> FALSE]
    /\ skipped = <<>>

\* the score stored in combined_categories[c] (read through the reference)
CombinedScore(c) == heap[combined[c]][c].score

\* [cat.get('score', 0) for cat in combined_categories.values()]
\* (insertion order does not matter to the sum)
RECURSIVE ScoresFrom(_)
ScoresFrom(i) ==
    IF i > Len(Categories) THEN <<>>
    ELSE IF combined[Categories[i]] = 0 THEN ScoresFrom(i + 1)
    ELSE <<CombinedScore(Categories[i])>> \o ScoresFrom(i + 1)

\* the variant that leaves a failed contribution out of the average
MergedHeapSkipFailed(h, comb, new) ==
    [k \in 1..Len(h) |->
        [c \in CategorySet |->
            IF new[c].present /\ comb[c] = k /\ new[c].status # "failed"
            THEN [h[k][c] EXCEPT !.score = MergeScore(h[k][c].score, new[c].score)]
            ELSE h[k][c]]]

\* the merge loop of perform_multi_method_evaluation on the heap: a category
\* already in combined_categories gets the averaged score written into the
\* dict stored there
MergedHeap(h, comb, new) ==
    [k \in 1..Len(h) |->
        [c \in CategorySet |->
            IF new[c].present /\ comb[c] = k
            THEN [h[k][c] EXCEPT !.score = MergeScore(h[k][c].score, new[c].score)]
            ELSE h[k][c]]]

\* the variant that stores the latest contribution's dict
MergedCombinedLatest(comb, new, idx) ==
    [c \in CategorySet |-> IF new[c].present THEN idx ELSE comb[c]]

\* the merge loop on combined_categories: a category not yet there gets the
\* new dict itself (combined_categories[category_id] = category_data)
MergedCombined(comb, new, idx) ==
    [c \in CategorySet |->
        IF new[c].present /\ comb[c] = 0 THEN idx ELSE comb[c]]

\* raise TimeoutError(...): leaves the loops for the finally clause
RaiseTimeout ==
    /\ outcome' = "timeout"
    /\ pc' = "finally"

----------------------------------------------------------------------------
(* evaluate_document, up to the call of perform_multi_method_evaluation *)

\* the row of the record is gone from the table: no status, no columns
DeletedRecord ==
    [status |-> "deleted", evaluation_results |-> FALSE, error |-> "none",
     columns |-> NullColumns, overall_score |-> <<>>]

\* db.session.commit() of the request that created the record: the changed
\* fields reach the row if it is still there; nothing brings back a row
\* that another request deleted
Committed(record, changed) ==
    IF record = DeletedRecord THEN DeletedRecord ELSE changed

\* the variant that lets every text through
InsufficientTextNever(len) == FALSE

\* if not text_content or len(text_content.strip()) < 50
InsufficientText(len) == len < MinExtractChars

\* parse_pdf_file / parse_docx_file raise Exception('Failed to parse ...')
\* on a document they cannot read
ParserRaises(len) == len = Unreadable

ExtractText ==
    /\ pc = "extract"
    /\ IF ParserRaises(textLen)
       THEN \* except Exception as eval_error
            /\ evaluation' = Committed(evaluation,
                                [evaluation EXCEPT !.status = "failed",
                                                   !.error = "evaluation"])
            /\ pc' = "done"
            /\ timer' = timer
       ELSE IF InsufficientText(textLen)
       THEN /\ evaluation' = Committed(evaluation,
                                [evaluation EXCEPT !.status = "failed",
                                                   !.error = "extraction"])
            /\ pc' = "done"
            /\ timer' = timer
       ELSE \* perform_multi_method_evaluation: timer.start()
            /\ timer' = "armed"
            /\ pc' = "method_check"
            /\ evaluation' = evaluation
    /\ UNCHANGED <<raceVars, resolverVars, skipped>>
    /\ UNCHANGED <<methods, templates, hasClient, textLen, mi, ti, ci, curKeys,
                   partial, heap, all_results, combined, timeout_occurred,
                   outcome, result, lastRun, odd, produced, log, firedPhase,
                   lateStart>>

\* timeout_handler, run by the timer thread: of a timer that waited out its
\* interval, or of one whose thread was already past its test of the
\* cancellation event when cancel() was called
TimerFire ==
    /\ timer \in {"armed", "expired"}
    /\ timer' = "fired"
    /\ timeout_occurred' = TRUE
    /\ firedPhase' = IF pc \in {"finally", "caller", "done"}
                     THEN "after_last_check"
                     ELSE "before_last_check"
    /\ UNCHANGED <<raceVars, resolverVars, skipped>>
    /\ UNCHANGED <<methods, templates, hasClient, textLen, pc, mi, ti, ci,
                   curKeys, partial, heap, all_results, combined, outcome,
                   result, evaluation, lastRun, odd, produced, log, lateStart>>

----------------------------------------------------------------------------
(* perform_multi_method_evaluation *)

\* the check at the head of the method loop
MethodTimedOut == timeout_occurred

\* the variant that runs the basic evaluation for every other method name
StartsBasicByDefault(method) == method # "template"

\* if method == 'basic':
StartsBasic(method) == method = "basic"

\* elif method == 'template' and selected_templates:
StartsTemplates(method, selected_templates) ==
    method = "template" /\ selected_templates # <<>>

\* for method in evaluation_methods: check, then dispatch
MethodCheck ==
    /\ pc = "method_check"
    /\ IF mi > Len(methods)
       THEN /\ pc' = "final_check"
            /\ UNCHANGED <<mi, ti, ci, partial, outcome, lateStart>>
       ELSE IF MethodTimedOut
       THEN /\ RaiseTimeout
            /\ UNCHANGED <<mi, ti, ci, partial, lateStart>>
       ELSE /\ outcome' = outcome
            /\ lateStart' = [lateStart EXCEPT !.step = @ \/ timeout_occurred]
            /\ IF StartsBasic(methods[mi])
               THEN IF textLen < MinEvalChars
                    THEN \* evaluate_manuscript raises; except: continue
                         /\ mi' = mi + 1
                         /\ pc' = pc
                         /\ UNCHANGED <<ti, ci, partial>>
                    ELSE IF ~hasClient
                    THEN \* _generate_mock_evaluation
                         /\ partial' = MockEvaluation
                         /\ pc' = "basic_merge"
                         /\ UNCHANGED <<mi, ti, ci>>
                    ELSE /\ partial' = NoResults
                         /\ ci' = 1
                         /\ pc' = "basic_category"
                         /\ UNCHANGED <<mi, ti>>
               ELSE IF StartsTemplates(methods[mi], templates)
               THEN /\ ti' = 1
                    /\ pc' = "template_check"
                    /\ UNCHANGED <<mi, ci, partial>>
               ELSE /\ mi' = mi + 1
                    /\ pc' = pc
                    /\ UNCHANGED <<ti, ci, partial>>
    /\ UNCHANGED <<raceVars, resolverVars, skipped>>
    /\ UNCHANGED <<methods, templates, hasClient, textLen, curKeys, heap,
                   all_results, combined, timeout_occurred, timer, result,
                   evaluation, lastRun, odd, produced, log, firedPhase>>

\* one pass of the loop of _perform_comprehensive_evaluation
BasicCategory ==
    /\ pc = "basic_category"
    /\ \E script \in Scripts :
        LET run == EvaluateCategory(script, 0, retry_delay, <<>>) IN
        /\ script # BaseScript => odd < MaxOdd
        /\ odd' = IF script # BaseScript THEN odd + 1 ELSE odd
        /\ partial' = [partial EXCEPT ![Categories[ci]] = run.result]
        /\ lastRun' = [path |-> "basic", script |-> script,
                       raised |-> script[1] = Raise, result |-> run.result,
                       requests |-> run.requests, attempts |-> run.requests,
                       sleeps |-> run.sleeps]
    /\ lateStart' = [lateStart EXCEPT !.category = @ \/ timeout_occurred]
    /\ IF ci = Len(Categories)
       THEN pc' = "basic_merge" /\ ci' = ci
       ELSE pc' = pc /\ ci' = ci + 1
    /\ UNCHANGED <<raceVars, resolverVars, skipped>>
    /\ UNCHANGED <<methods, templates, hasClient, textLen, mi, ti, curKeys,
                   heap, all_results, combined, timeout_occurred, timer,
                   outcome, result, evaluation, produced, log, firedPhase>>

\* all_results[key] = results, then the merge loop over its categories
Merge(key, results) ==
    LET idx == Len(heap) + 1 IN
    /\ heap' = MergedHeap(Append(heap, results), combined, results)
    /\ produced' = Append(produced, results)
    /\ all_results' = [all_results EXCEPT ![key] = idx]
    /\ combined' = MergedCombined(combined, results, idx)
    /\ log' = Append(log, [mi |-> mi, ti |-> IF key = "basic" THEN 0 ELSE ti,
                            key |-> key,
                            keys |-> IF key = "basic" THEN Categories
                                     ELSE curKeys,
                            mockLogged |-> MockLogged(key, hasClient, partial)])

\* evaluate_manuscript returns, then all_results['basic'] and the merge
BasicMerge ==
    /\ pc = "basic_merge"
    /\ Merge("basic", ComprehensiveResult(partial))
    /\ mi' = mi + 1
    /\ pc' = "method_check"
    /\ UNCHANGED <<raceVars, resolverVars, skipped>>
    /\ UNCHANGED <<methods, templates, hasClient, textLen, ti, ci, curKeys,
                   partial, timeout_occurred, timer, outcome, result,
                   evaluation, lastRun, odd, firedPhase, lateStart>>

\* the check at the head of the template loop
TemplateTimedOut == timeout_occurred

\* mutant: the list walked from its end
TemplateAtReversed(i) == templates[Len(templates) + 1 - i]

\* the template evaluated in pass i of the template loop
TemplateAt(i) == templates[i]

\* the variant in which a failing template ends the template loop
AfterTemplateFailureAbort == "finally"

\* if template: is false, or except Exception: logger.error(...); continue
AfterTemplateFailure == "template_check"

\* for template_id in selected_templates: check, look up, download, parse
TemplateCheck ==
    /\ pc = "template_check"
    /\ IF ti > Len(templates)
       THEN /\ mi' = mi + 1
            /\ pc' = "method_check"
            /\ UNCHANGED <<ti, ci, curKeys, partial, outcome, lateStart,
                           skipped>>
       ELSE IF TemplateTimedOut
       THEN /\ RaiseTimeout
            /\ UNCHANGED <<mi, ti, ci, curKeys, partial, lateStart, skipped>>
       ELSE /\ outcome' = outcome
            /\ mi' = mi
            /\ lateStart' = [lateStart EXCEPT !.step = @ \/ timeout_occurred]
            /\ \E load \in TemplateLoads :
                IF ~load.ok \/ textLen < MinEvalChars
                THEN \* no row, or an exception: logged, continue
                     /\ ti' = ti + 1
                     /\ pc' = AfterTemplateFailure
                     /\ skipped' = Append(skipped,
                           [mi |-> mi, ti |-> ti, id |-> TemplateAt(ti),
                            why |-> IF load.ok THEN "short_text"
                                    ELSE load.why])
                     /\ UNCHANGED <<ci, curKeys, partial>>
                ELSE /\ curKeys' = load.keys
                     /\ partial' = NoResults
                     /\ ci' = 1
                     /\ pc' = "template_category"
                     /\ ti' = ti
                     /\ skipped' = skipped
    /\ UNCHANGED <<raceVars, resolverVars>>
    /\ UNCHANGED <<methods, templates, hasClient, textLen, heap, all_results,
                   combined, timeout_occurred, timer, result, evaluation,
                   lastRun, odd, produced, log, firedPhase>>

\* TemplateEvaluator._evaluate_category_with_prompt.  Without a client: the
\* mock result, no call.  With one: the arguments of the request are
\* evaluated first; GPTEvaluator.__init__ sets client and
\* evaluation_categories only, so reading self.gpt_evaluator.model raises
\* AttributeError before anything is sent, and the except clause returns the
\* mock result after that one attempt
TemplateCategoryRun(c, client, score) ==
    [path |-> "template", script |-> <<>>, raised |-> client,
     result |-> TemplateMockResult(c, score), requests |-> 0,
     attempts |-> IF client THEN 1 ELSE 0, sleeps |-> <<>>]

\* the variant that walks the category table from its end instead of the map
PromptCategoryFromTable(keys, i) == Categories[Len(Categories) + 1 - i]

\* for category, prompt in template_prompts.items(): the category of pass i
PromptCategory(keys, i) == keys[i]

\* random.randint(lo, hi): any integer of the range, both ends included;
\* followed here for the draws less than MaxMockSpread away from an end
MockDraws(c) ==
    {s \in MockRange(c)[1]..MockRange(c)[2] :
        \/ s < MockRange(c)[1] + MaxMockSpread
        \/ s > MockRange(c)[2] - MaxMockSpread}

\* one pass of the loop of _perform_template_evaluation
TemplateCategory ==
    /\ pc = "template_category"
    /\ LET c == PromptCategory(curKeys, ci) IN
       \E score \in MockDraws(c) :
        LET run == TemplateCategoryRun(c, hasClient, score) IN
        /\ score # MockRange(c)[1] => odd < MaxOdd
        /\ odd' = IF score # MockRange(c)[1] THEN odd + 1 ELSE odd
        /\ partial' = [partial EXCEPT ![c] = run.result]
        /\ lastRun' = run
    /\ lateStart' = [lateStart EXCEPT !.category = @ \/ timeout_occurred]
    /\ IF ci = Len(curKeys)
       THEN pc' = "template_merge" /\ ci' = ci
       ELSE pc' = pc /\ ci' = ci + 1
    /\ UNCHANGED <<raceVars, resolverVars, skipped>>
    /\ UNCHANGED <<methods, templates, hasClient, textLen, mi, ti, curKeys,
                   heap, all_results, combined, timeout_occurred, timer,
                   outcome, result, evaluation, produced, log, firedPhase>>

TemplateMerge ==
    /\ pc = "template_merge"
    /\ Merge(TemplateKey(TemplateAt(ti)), partial)
    /\ ti' = ti + 1
    /\ pc' = "template_check"
    /\ UNCHANGED <<raceVars, resolverVars, skipped>>
    /\ UNCHANGED <<methods, templates, hasClient, textLen, mi, ci, curKeys,
                   partial, timeout_occurred, timer, outcome, result,
                   evaluation, lastRun, odd, firedPhase, lateStart>>

\* mutant: no check before the result is built
FinalCheckSkipped == FALSE

\* the check before the result is built
FinalTimedOut == timeout_occurred

\* the last check, then the overall score and the return
FinalCheck ==
    /\ pc = "final_check"
    /\ IF FinalTimedOut
       THEN /\ RaiseTimeout
            /\ result' = result
       ELSE /\ result' = [returned |-> TRUE,
                          overall_score |-> OverallScore(ScoresFrom(1))]
            /\ outcome' = "returned"
            /\ pc' = "finally"
    /\ UNCHANGED <<raceVars, resolverVars, skipped>>
    /\ UNCHANGED <<methods, templates, hasClient, textLen, mi, ti, ci, curKeys,
                   partial, heap, all_results, combined, timeout_occurred,
                   timer, evaluation, lastRun, odd, produced, log, firedPhase,
                   lateStart>>

\* timer.cancel() sets the event the timer thread tests once, after its
\* wait and before it calls the handler: a waiting timer is stopped
\* ("cancelled") unless its thread is already past that test ("expired"),
\* and then the handler still runs
CancelTimer(t) == IF t = "armed" THEN {"cancelled", "expired"} ELSE {t}

\* finally: timer.cancel()
Finally ==
    /\ pc = "finally"
    /\ timer' \in CancelTimer(timer)
    /\ pc' = "caller"
    /\ UNCHANGED <<raceVars, resolverVars, skipped>>
    /\ UNCHANGED <<methods, templates, hasClient, textLen, mi, ti, ci, curKeys,
                   partial, heap, all_results, combined, timeout_occurred,
                   outcome, result, evaluation, lastRun, odd, produced, log,
                   firedPhase, lateStart>>

----------------------------------------------------------------------------
(* evaluate_document, after the call *)

\* except Exception as eval_error: the record is marked FAILED
EvaluationFailed ==
    /\ pc = "caller"
    /\ outcome # "returned"
    /\ evaluation' = Committed(evaluation,
                        [evaluation EXCEPT !.status = "failed",
                                           !.error = "evaluation"])
    /\ pc' = "done"
    /\ UNCHANGED <<raceVars, resolverVars, skipped>>
    /\ UNCHANGED <<methods, templates, hasClient, textLen, mi, ti, ci, curKeys,
                   partial, heap, all_results, combined, timeout_occurred,
                   timer, outcome, result, lastRun, odd, produced, log,
                   firedPhase, lateStart>>

\* the variant in which a failed report leaves the record as it was
StatusAfterReportUnchanged(reportOk) ==
    IF reportOk THEN "completed" ELSE "processing"

\* evaluation.status = COMPLETED once the report is there; an exception of
\* generate_evaluation_report reaches the outer except, which sets FAILED
StatusAfterReport(reportOk) == IF reportOk THEN "completed" ELSE "failed"

\* categories.get(c, {}).get('score') for the six score columns
ScoreColumns ==
    [c \in CategorySet |->
        IF combined[c] = 0 THEN <<>> ELSE <<CombinedScore(c)>>]

\* the results are stored, the report is generated, the record is committed
StoreResults ==
    /\ pc = "caller"
    /\ outcome = "returned"
    /\ \E reportOk \in BOOLEAN :
        evaluation' = Committed(evaluation,
                        [evaluation EXCEPT
                            !.evaluation_results = TRUE,
                            !.columns = ScoreColumns,
                            !.overall_score =
                                CalculateOverallScore(ScoreColumns, @),
                            !.status = StatusAfterReport(reportOk),
                            !.error = IF reportOk THEN "none" ELSE "report"])
    /\ pc' = "done"
    /\ UNCHANGED <<raceVars, resolverVars, skipped>>
    /\ UNCHANGED <<methods, templates, hasClient, textLen, mi, ti, ci, curKeys,
                   partial, heap, all_results, combined, timeout_occurred,
                   timer, outcome, result, lastRun, odd, produced, log,
                   firedPhase, lateStart>>

\* DELETE /evaluations/<id> (and the bulk and account deletions): the owner
\* removes the record, whatever its status and whether or not the request
\* that created it is still running
DeleteEvaluation ==
    /\ pc # "idle"
    /\ evaluation # DeletedRecord
    /\ evaluation' = DeletedRecord
    /\ UNCHANGED <<raceVars, resolverVars, skipped>>
    /\ UNCHANGED <<methods, templates, hasClient, textLen, pc, mi, ti, ci,
                   curKeys, partial, heap, all_results, combined,
                   timeout_occurred, timer, outcome, result, lastRun, odd,
                   produced, log, firedPhase, lateStart>>

Next ==
    \/ ExtractText
    \/ TimerFire
    \/ MethodCheck
    \/ BasicCategory
    \/ BasicMerge
    \/ TemplateCheck
    \/ TemplateCategory
    \/ TemplateMerge
    \/ FinalCheck
    \/ Finally
    \/ EvaluationFailed
    \/ StoreResults
    \/ DeleteEvaluation

Spec == Init /\ [][Next]_vars

-----------------------------------------------------------------------------
(* Two requests in the template loop at the same time.  Both name their
   temporary copy temp_template_<template_id>.xlsx in the one upload folder,
   so requests that select the same template id use the same path.  The
   template rows and the stored spreadsheets are only read. *)

\* selected_templates of a request
TemplateLists == {<<1>>, <<1, 2>>, <<2, 1>>}

InitRace ==
    /\ JobIdle
    /\ ResolverIdle
    /\ rtemplates \in [Requests -> TemplateLists]
    /\ rpc = [r \in Requests |-> "open"]
    /\ rti = [r \in Requests |-> 1]
    /\ tempFile = [t \in {1, 2} |-> "absent"]
    /\ orphan = [r \in Requests |-> FALSE]
    /\ contributed = [r \in Requests |-> <<>>]

\* the template id request r is working on
CurrentTemplate(r) == rtemplates[r][rti[r]]

\* open(temp_template_path, 'wb'): creates the file, or truncates the file
\* that is there
OpenTemp(r) ==
    /\ rpc[r] = "open"
    /\ rti[r] <= Len(rtemplates[r])
    /\ tempFile' = [tempFile EXCEPT ![CurrentTemplate(r)] = "empty"]
    /\ orphan' = [orphan EXCEPT ![r] = FALSE]
    /\ rpc' = [rpc EXCEPT ![r] = "write"]
    /\ UNCHANGED <<rtemplates, rti, contributed>>
    /\ UNCHANGED <<jobVars, resolverVars>>

\* f.write(template_content) and close: the bytes go to the file the handle
\* was opened on, which is no longer at the path if it was removed meanwhile
WriteTemp(r) ==
    /\ rpc[r] = "write"
    /\ tempFile' = IF orphan[r] THEN tempFile
                   ELSE [tempFile EXCEPT ![CurrentTemplate(r)] = "full"]
    /\ rpc' = [rpc EXCEPT ![r] = "parse"]
    /\ UNCHANGED <<rtemplates, rti, orphan, contributed>>
    /\ UNCHANGED <<jobVars, resolverVars>>

\* parse_template_file(temp_template_path): raises when the path is missing
\* or the file is not a complete workbook
ParseTemp(r) ==
    /\ rpc[r] = "parse"
    /\ rpc' = [rpc EXCEPT ![r] =
                 IF tempFile[CurrentTemplate(r)] = "full" THEN "evaluate"
                 ELSE "cleanup"]
    /\ UNCHANGED <<rtemplates, rti, tempFile, orphan, contributed>>
    /\ UNCHANGED <<jobVars, resolverVars>>

\* evaluate_with_template and the merge into the request's own dicts
EvaluateTemp(r) ==
    /\ rpc[r] = "evaluate"
    /\ contributed' = [contributed EXCEPT
                         ![r] = Append(@, CurrentTemplate(r))]
    /\ rpc' = [rpc EXCEPT ![r] = "cleanup"]
    /\ UNCHANGED <<rtemplates, rti, tempFile, orphan>>
    /\ UNCHANGED <<jobVars, resolverVars>>

\* finally: if os.path.exists(temp_template_path): os.remove(...); then the
\* loop moves to the next template id
RemoveTemp(r) ==
    /\ rpc[r] = "cleanup"
    /\ tempFile' = [tempFile EXCEPT ![CurrentTemplate(r)] = "absent"]
    /\ orphan' = [q \in Requests |->
                    IF /\ q # r
                       /\ rpc[q] = "write"
                       /\ CurrentTemplate(q) = CurrentTemplate(r)
                       /\ tempFile[CurrentTemplate(r)] # "absent"
                    THEN TRUE ELSE orphan[q]]
    /\ rti' = [rti EXCEPT ![r] = @ + 1]
    /\ rpc' = [rpc EXCEPT ![r] = "open"]
    /\ UNCHANGED <<rtemplates, contributed>>
    /\ UNCHANGED <<jobVars, resolverVars>>

\* the template loop of request r is over
LoopDone(r) ==
    /\ rpc[r] = "open"
    /\ rti[r] > Len(rtemplates[r])
    /\ rpc' = [rpc EXCEPT ![r] = "done"]
    /\ UNCHANGED <<rtemplates, rti, tempFile, orphan, contributed>>
    /\ UNCHANGED <<jobVars, resolverVars>>

NextRace ==
    \E r \in Requests :
        \/ OpenTemp(r)
        \/ WriteTemp(r)
        \/ ParseTemp(r)
        \/ EvaluateTemp(r)
        \/ RemoveTemp(r)
        \/ LoopDone(r)

SpecRace == InitRace /\ [][NextRace]_vars

-----------------------------------------------------------------------------
(* The template prompt resolver: ExcelParser._extract_text_content followed by
   TemplateEvaluator._extract_prompts_from_content.  Sheet names, cell lines
   and keywords are sequences of characters. *)

UpperCase == <<"A", "B", "C", "D", "E", "F", "G", "H", "I", "J", "K", "L", "M", "N", "O", "P", "Q", "R", "S", "T", "U", "V", "W", "X", "Y", "Z">>
LowerCase == <<"a", "b", "c", "d", "e", "f", "g", "h", "i", "j", "k", "l", "m", "n", "o", "p", "q", "r", "s", "t", "u", "v", "w", "x", "y", "z">>

\* str.lower() on one character and on a string
Lower(ch) ==
    IF \E i \in 1..Len(UpperCase) : UpperCase[i] = ch
    THEN LowerCase[CHOOSE i \in 1..Len(UpperCase) : UpperCase[i] = ch]
    ELSE ch
LowerSeq(str) == [i \in 1..Len(str) |-> Lower(str[i])]

\* the characters that str.split() and str.strip() take as white space
\* (those for which str.isspace() holds); a character that has no escape in
\* a string here is written as its code point
WhiteSpace == {
    " ", "\t", "\n", "\r", "\f", "U+000B",
    "U+001C", "U+001D", "U+001E", "U+001F", "U+0085", "U+00A0", "U+1680",
    "U+2000", "U+2001", "U+2002", "U+2003", "U+2004", "U+2005", "U+2006",
    "U+2007", "U+2008", "U+2009", "U+200A", "U+2028", "U+2029", "U+202F",
    "U+205F", "U+3000"}
IsSpace(ch) == ch \in WhiteSpace

\* str.strip()
RECURSIVE Strip(_)
Strip(str) ==
    IF str = <<>> THEN str
    ELSE IF IsSpace(Head(str)) THEN Strip(Tail(str))
    ELSE IF IsSpace(str[Len(str)]) THEN Strip(SubSeq(str, 1, Len(str) - 1))
    ELSE str

\* str.startswith(prefix)
StartsWith(str, prefix) ==
    Len(prefix) <= Len(str) /\ SubSeq(str, 1, Len(prefix)) = prefix

\* keyword in str
Contains(str, keyword) ==
    \E i \in 0..(Len(str) - Len(keyword)) :
        SubSeq(str, i + 1, i + Len(keyword)) = keyword

\* str.find(sep) + 1: the position of the first occurrence of sep, 0 if none
Find(str, sep) ==
    LET at == {i \in 1..(Len(str) - Len(sep) + 1) :
                  SubSeq(str, i, i + Len(sep) - 1) = sep}
    IN IF at = {} THEN 0 ELSE CHOOSE i \in at : \A j \in at : i <= j

\* str.split(sep): cut at every occurrence of sep, from the left
RECURSIVE Split(_, _)
Split(str, sep) ==
    LET i == Find(str, sep) IN
    IF i = 0 THEN <<str>>
    ELSE <<SubSeq(str, 1, i - 1)>>
             \o Split(SubSeq(str, i + Len(sep), Len(str)), sep)

\* str.split(sep, 1): cut at the first occurrence only
SplitOnce(str, sep) ==
    LET i == Find(str, sep) IN
    IF i = 0 THEN <<str>>
    ELSE <<SubSeq(str, 1, i - 1), SubSeq(str, i + Len(sep), Len(str))>>

\* sep.join(parts)
RECURSIVE Join(_, _)
Join(parts, sep) ==
    IF parts = <<>> THEN <<>>
    ELSE IF Len(parts) = 1 THEN parts[1]
    ELSE parts[1] \o sep \o Join(Tail(parts), sep)

\* ' '.join(line.split()) on a line: no white space at either end, one
\* blank where there was a run of white space
RECURSIVE Squeeze(_)
Squeeze(str) ==
    IF str = <<>> THEN str
    ELSE IF ~IsSpace(str[1]) THEN <<str[1]>> \o Squeeze(Tail(str))
    ELSE IF Len(str) >= 2 /\ IsSpace(str[2]) THEN Squeeze(Tail(str))
    ELSE <<" ">> \o Squeeze(Tail(str))
JoinWords(line) == Squeeze(Strip(line))

\* ExcelParser._clean_text: every line with its words joined by one blank,
\* empty lines dropped, the text stripped
CleanText(text) ==
    LET lines == Split(text, <<"\n">>)
        cleaned == [i \in 1..Len(lines) |-> JoinWords(lines[i])]
    IN Strip(Join(SelectSeq(cleaned, LAMBDA l : l # <<>>), <<"\n">>))

\* the text before a sheet's name in the extracted content, and after it
SheetMarker == <<"=", "=", "=", " ", "S", "H", "E", "E", "T", ":">>
SheetMarkerEnd == <<" ", "=", "=", "=">>
\* the start of a line that _clean_prompt_content drops
RuleMark == <<"=", "=", "=">>

\* category_mapping, in the order of the dict literal
category_mapping == <<
    [category |-> "line-editing", keywords |-> <<
        <<"l", "i", "n", "e", " ", "e", "d", "i", "t", "i", "n", "g">>,
        <<"l", "i", "n", "e", "-", "e", "d", "i", "t", "i", "n", "g">>,
        <<"c", "o", "p", "y", " ", "e", "d", "i", "t", "i", "n", "g">>,
        <<"g", "r", "a", "m", "m", "a", "r">>>>],
    [category |-> "plot", keywords |-> <<
        <<"p", "l", "o", "t">>,
        <<"s", "t", "o", "r", "y", " ", "s", "t", "r", "u", "c", "t", "u", "r", "e">>,
        <<"n", "a", "r", "r", "a", "t", "i", "v", "e">>>>],
    [category |-> "character", keywords |-> <<
        <<"c", "h", "a", "r", "a", "c", "t", "e", "r">>,
        <<"c", "h", "a", "r", "a", "c", "t", "e", "r", "s">>,
        <<"c", "h", "a", "r", "a", "c", "t", "e", "r", "i", "z", "a", "t", "i", "o", "n">>>>],
    [category |-> "flow", keywords |-> <<
        <<"f", "l", "o", "w">>,
        <<"b", "o", "o", "k", " ", "f", "l", "o", "w">>,
        <<"r", "h", "y", "t", "h", "m">>,
        <<"t", "r", "a", "n", "s", "i", "t", "i", "o", "n", "s">>>>],
    [category |-> "worldbuilding", keywords |-> <<
        <<"w", "o", "r", "l", "d", "b", "u", "i", "l", "d", "i", "n", "g">>,
        <<"w", "o", "r", "l", "d", " ", "b", "u", "i", "l", "d", "i", "n", "g">>,
        <<"s", "e", "t", "t", "i", "n", "g">>>>],
    [category |-> "readiness", keywords |-> <<
        <<"r", "e", "a", "d", "i", "n", "e", "s", "s">>,
        <<"l", "a", "d", "i", " ", "r", "e", "a", "d", "i", "n", "e", "s", "s">>,
        <<"o", "v", "e", "r", "a", "l", "l">>,
        <<"f", "i", "n", "a", "l">>>>]>>

\* _get_default_prompts()
DefaultPrompts ==
    "line-editing" :>
        "Analyze the manuscript for grammar, syntax, clarity, and prose fluidity. Provide a score out of 100 and a detailed summary of findings." @@
    "plot" :>
        "Evaluate the plot structure, pacing, narrative tension, and resolution effectiveness. Provide a score out of 100 and a detailed summary of findings." @@
    "character" :>
        "Assess character depth, motivation, consistency, and emotional impact throughout the manuscript. Provide a score out of 100 and a detailed summary of findings." @@
    "flow" :>
        "Evaluate the book flow, including rhythm, transitions, escalation patterns, and narrative cohesion. Provide a score out of 100 and a detailed summary of findings." @@
    "worldbuilding" :>
        "Analyze the worldbuilding and setting for depth, continuity, and originality. Provide a score out of 100 and a detailed summary of findings." @@
    "readiness" :>
        "Provide an overall LADI readiness assessment using our proprietary scoring system. Consider all aspects of the manuscript and assign a readiness tier (High Readiness, Moderate Readiness, Needs Work, etc.) with a score out of 100 and detailed justification."

\* the 'prompt' entries of GPTEvaluator.evaluation_categories
CategoryPrompts ==
    "line-editing" :>
        "Analyze the manuscript for grammar, syntax, clarity, and prose fluidity. Provide a score out of 100 and a detailed summary of findings." @@
    "plot" :>
        "Evaluate the plot structure, pacing, narrative tension, and resolution effectiveness. Provide a score out of 100 and a detailed summary of findings." @@
    "character" :>
        "Assess character depth, motivation, consistency, and emotional impact throughout the manuscript. Provide a score out of 100 and a detailed summary of findings." @@
    "flow" :>
        "Evaluate the book flow, including rhythm, transitions, escalation patterns, and narrative cohesion. Provide a score out of 100 and a detailed summary of findings." @@
    "worldbuilding" :>
        "Analyze the worldbuilding and setting for depth, continuity, and originality. Provide a score out of 100 and a detailed summary of findings." @@
    "readiness" :>
        "Provide an overall LADI readiness assessment using our proprietary scoring system. Consider all aspects of the manuscript and assign a readiness tier (High Readiness, Moderate Readiness, Needs Work, etc.) with a score out of 100 and detailed justification."

\* "\n".join(texts) of _extract_sheet_text: the rows of a sheet, one a line
SheetText(sheet) == Join(sheet.body, <<"\n">>)

\* extracted_texts: for each sheet with cell text, in workbook order,
\* f"=== SHEET: {sheet_name} ===\n{sheet_text}\n"; sheets without cell text
\* are left out
RECURSIVE ExtractedTexts(_)
ExtractedTexts(sheets) ==
    IF sheets = <<>> THEN <<>>
    ELSE LET sheet == Head(sheets) IN
         (IF Strip(SheetText(sheet)) = <<>> THEN <<>>
          ELSE <<SheetMarker \o <<" ">> \o sheet.name \o SheetMarkerEnd
                     \o <<"\n">> \o SheetText(sheet) \o <<"\n">> >>)
         \o ExtractedTexts(Tail(sheets))

\* ExcelParser._extract_text_content: the texts joined by an empty line,
\* then _clean_text
ExtractTextContent(sheets) ==
    CleanText(Join(ExtractedTexts(sheets), <<"\n", "\n">>))

\* content.split("=== SHEET:"): the marker cuts wherever it occurs
SplitSheets(content) == Split(content, SheetMarker)

\* for category, keywords in category_mapping.items(): if any(...): break --
\* the position in the table of the first category that matches, 0 if none
MatchCategory(sheet_name) ==
    LET hits == {i \in 1..Len(category_mapping) :
                    \E k \in 1..Len(category_mapping[i].keywords) :
                        Contains(LowerSeq(sheet_name),
                                 LowerSeq(category_mapping[i].keywords[k]))}
    IN IF hits = {} THEN 0
       ELSE CHOOSE i \in hits : \A j \in hits : i <= j

\* _clean_prompt_content: the lines stripped, those that are empty or start
\* with '===' dropped, the rest joined by a blank
KeptLine(line) == line # <<>> /\ ~StartsWith(line, RuleMark)
CleanPromptContent(content) ==
    LET lines == Split(content, <<"\n">>)
        stripped == [i \in 1..Len(lines) |-> Strip(lines[i])]
    IN Join(SelectSeq(stripped, KeptLine), <<" ">>)

\* prompts[category] = text on a dict kept as its keys in insertion order and
\* their values
PutPrompt(p, category, text) ==
    IF \E i \in 1..Len(p.keys) : p.keys[i] = category
    THEN [p EXCEPT !.text[CHOOSE i \in 1..Len(p.keys) : p.keys[i] = category]
                      = text]
    ELSE [keys |-> Append(p.keys, category), text |-> Append(p.text, text)]

\* the loop over the pieces: a piece that is blank or has no second line is
\* passed over; lines = sheet.strip().split('\n', 1)
RECURSIVE PromptsFromSheets(_, _)
PromptsFromSheets(pieces, p) ==
    IF pieces = <<>> THEN p
    ELSE LET lines == SplitOnce(Strip(Head(pieces)), <<"\n">>) IN
         IF Len(lines) < 2
         THEN PromptsFromSheets(Tail(pieces), p)
         ELSE LET sheet_name == Strip(lines[1])
                  sheet_content == Strip(lines[2])
                  m == MatchCategory(sheet_name) IN
              PromptsFromSheets(Tail(pieces),
                  IF m = 0 THEN p
                  ELSE PutPrompt(p, category_mapping[m].category,
                                 CleanPromptContent(sheet_content)))

\* _get_default_prompts() as a prompt map
DefaultPromptMap ==
    [keys |-> Categories,
     text |-> [i \in 1..Len(Categories) |-> DefaultPrompts[Categories[i]]]]

\* if not prompts:
UseDefaults(p) == p.keys = <<>>

\* TemplateEvaluator._extract_prompts_from_content
ExtractPromptsFromContent(content) ==
    LET p == PromptsFromSheets(SplitSheets(content),
                               [keys |-> <<>>, text |-> <<>>])
    IN IF UseDefaults(p) THEN DefaultPromptMap ELSE p

\* the spreadsheets resolved: sheet names, and the rows of a sheet (the
\* stripped cell texts of a row joined by a blank).  One name has a run of
\* blanks, one row has one, and one row holds the text of a sheet marker.
MaxSheets == 3
SheetNames == {
    <<"L", "i", "n", "e", " ", "E", "d", "i", "t", "i", "n", "g", " ", "N", "o", "t", "e", "s">>,
    <<"P", "L", "O", "T">>,
    <<"M", "i", "s", "c">>,
    <<"C", "h", "a", "r", "a", "c", "t", "e", "r", " ", "F", "l", "o", "w">>,
    <<"O", "v", "e", "r", "a", "l", "l", " ", "G", "r", "a", "m", "m", "a", "r">>,
    <<"L", "i", "n", "e", "\t", "E", "d", "i", "t", "i", "n", "g">>}
SheetBodies == {
    <<>>,
    <<<<"B", "e", " ", "s", "t", "r", "i", "c", "t">>>>,
    <<<<"B", "e", " ", "U+00A0", "f", "a", "i", "r">>>>,
    <<<<"=", "=", "=", " ", "v", "2">>,
      <<"S", "c", "o", "r", "e", " ", "i", "t">>,
      <<"f", "a", "i", "r", "l", "y">>>>,
    <<<<"s", "e", "e", " ", "=", "=", "=", " ", "S", "H", "E", "E", "T", ":", " ", "G", "r", "a", "m", "m", "a", "r", " ", "=", "=", "=">>,
      <<"B", "e", " ", "f", "i", "r", "m">>>>}
Workbooks ==
    {wb \in UNION {[1..n -> [name : SheetNames, body : SheetBodies]] :
                      n \in 0..MaxSheets} :
        \A i, j \in 1..Len(wb) : i # j => wb[i].name # wb[j].name}

InitResolver ==
    /\ JobIdle
    /\ RaceIdle
    /\ workbook \in Workbooks
    /\ prompts = [keys |-> <<>>, text |-> <<>>]
    /\ resolved = FALSE

\* parse_template_file: the text of the workbook, then its prompts
ParseTemplateFile ==
    /\ ~resolved
    /\ prompts' = ExtractPromptsFromContent(ExtractTextContent(workbook))
    /\ resolved' = TRUE
    /\ UNCHANGED workbook
    /\ UNCHANGED <<jobVars, raceVars>>

NextResolver == ParseTemplateFile

SpecResolver == InitResolver /\ [][NextResolver]_vars

----------------------------------------------------------------------------
(* Properties *)

\* C11: a request that has finished its template loop has a contribution
\* from every template it selected, in order, whatever the other request did
\* meanwhile (which is what it has when it runs alone).
C11_RequestsIsolated ==
    \A r \in Requests :
        rpc[r] = "done" => contributed[r] = rtemplates[r]

\* the scores contributed to category c, in the order they were merged
RECURSIVE ContributionsFrom(_, _)
ContributionsFrom(c, k) ==
    IF k > Len(produced) THEN <<>>
    ELSE IF produced[k][c].present
         THEN <<produced[k][c].score>> \o ContributionsFrom(c, k + 1)
         ELSE ContributionsFrom(c, k + 1)

\* q is the integer nearest to num / den, the even one of the two at a tie
NearestEven(q, num, den) ==
    LET d == IF den * q >= num THEN den * q - num ELSE num - den * q
    IN  2 * d < den \/ (2 * d = den /\ q % 2 = 0)

\* the pairwise left fold acc := s1, acc := round((acc + sk) / 2)
RECURSIVE FoldFrom(_, _, _)
FoldFrom(s, k, acc) ==
    IF k > Len(s) THEN acc
    ELSE FoldFrom(s, k + 1,
                  CHOOSE q \in (acc + s[k] - 1) \div 2 .. (acc + s[k] + 1) \div 2 :
                      NearestEven(q, acc + s[k], 2))

\* the record has not been deleted by its owner
RecordExists == evaluation # DeletedRecord

\* C1: when the timer fires before the last deadline check of the job, the
\* job ends with the timeout error and no result object, whatever had been
\* merged; the Evaluation record ends FAILED and evaluation_results is
\* never stored
C1_TimeoutDiscardsJob ==
    (firedPhase = "before_last_check" /\ pc \in {"finally", "caller", "done"})
        => /\ outcome = "timeout"
           /\ ~result.returned
           /\ ~evaluation.evaluation_results
           /\ evaluation.status # "completed"
           /\ (pc = "done" /\ RecordExists) => evaluation.status = "failed"

C1_Witness ==
    /\ pc = "done"
    /\ firedPhase = "before_last_check"
    /\ Len(log) >= 1
    /\ evaluation.status = "failed"

\* C2: once the timeout flag is set, no category evaluation begins: every
\* category step (basic and template) starts with the flag unset
C2_NoCategoryAfterFlag == ~lateStart.category

\* C3: in the basic method a category whose call raised on all three
\* attempts gets score 0 and status failed, the loop goes on to the next
\* category, and the basic result and the returned result hold all six
C3_FailedCategoryContinues ==
    /\ (lastRun.path = "basic" /\ lastRun.script = <<Raise, Raise, Raise>>)
          => lastRun.result = Res(0, "error", "failed")
    /\ (pc = "basic_category" /\ ci > 1)
          => /\ partial[Categories[ci - 1]] = lastRun.result
             /\ \A i \in 1..(ci - 1) : partial[Categories[i]].present
    /\ (pc = "basic_merge" /\ hasClient)
          => /\ partial[Categories[Len(Categories)]] = lastRun.result
             /\ \A c \in CategorySet : partial[c].present
    /\ \A k \in 1..Len(log) :
          log[k].key = "basic" => \A c \in CategorySet : produced[k][c].present
    /\ (result.returned /\ all_results["basic"] # 0)
          => \A c \in CategorySet : combined[c] # 0

C3_Witness ==
    /\ result.returned
    /\ all_results["basic"] # 0
    /\ produced[all_results["basic"]]["plot"] = Res(0, "error", "failed")
    /\ \A c \in CategorySet : combined[c] # 0

\* C4: two raises and then an answer give status completed after exactly
\* three requests, with waits of 2 and then 4 seconds
C4_RetryBackoff ==
    (/\ lastRun.path = "basic"
     /\ Len(lastRun.script) = 3
     /\ lastRun.script[1] = Raise /\ lastRun.script[2] = Raise
     /\ lastRun.script[3] # Raise)
        => /\ lastRun.result.status = "completed"
           /\ lastRun.requests = 3
           /\ lastRun.sleeps = <<2, 4>>

C4_Witness ==
    /\ lastRun.path = "basic"
    /\ lastRun.script = <<Raise, Raise, Json(ScoreChoices[1])>>
    /\ lastRun.result.status = "completed"

\* C5: a template category whose model call raises is attempted up to three
\* times and then gets score 0, status failed and a summary of the failure
C5_TemplateRetryDegrade ==
    (lastRun.path = "template" /\ lastRun.raised)
        => /\ lastRun.result.score = 0
           /\ lastRun.result.status = "failed"
           /\ lastRun.result.summary = "error"

\* C6: the combined score of a category is the pairwise left fold of its
\* contributions in execution order: 70, 90 give 80 and 70, 90, 50 give 65
C6_PairwiseFold ==
    \A c \in CategorySet :
        combined[c] # 0 =>
            LET s == ContributionsFrom(c, 1) IN
            /\ s # <<>>
            /\ CombinedScore(c) = FoldFrom(s, 2, s[1])
            /\ s = <<70, 90>> => CombinedScore(c) = 80
            /\ s = <<70, 90, 50>> => CombinedScore(c) = 65

C6_Witness ==
    \E c \in CategorySet :
        /\ combined[c] # 0
        /\ ContributionsFrom(c, 1) = <<70, 90, 50>>
        /\ CombinedScore(c) = 65

\* C7: when the job returns, every score in all_results is the score the
\* category evaluator produced for that method and category
C7_AllResultsUnmerged ==
    result.returned =>
        \A key \in MethodKeys : \A c \in CategorySet :
            all_results[key] # 0 =>
                heap[all_results[key]][c].score
                    = produced[all_results[key]][c].score

\* C8: the returned overall_score is the mean of the combined scores
\* rounded to the nearest integer (the even one at a tie), 0 without any
C8_OverallScore ==
    result.returned =>
        LET scores == ScoresFrom(1) IN
        IF scores = <<>> THEN result.overall_score = 0
        ELSE NearestEven(result.overall_score, SumSeq(scores), Len(scores))

C8_Witness ==
    /\ result.returned
    /\ Len(ScoresFrom(1)) = 2
    /\ (2 * SumSeq(ScoresFrom(1))) % (2 * Len(ScoresFrom(1))) = Len(ScoresFrom(1))

C8_WitnessEmpty ==
    result.returned /\ ScoresFrom(1) = <<>> /\ result.overall_score = 0

\* C9: every score of a returned result, combined or in all_results, lies
\* between 0 and 100
C9_ScoresInRange ==
    result.returned =>
        /\ \A c \in CategorySet :
              combined[c] # 0 => CombinedScore(c) \in 0..100
        /\ \A key \in MethodKeys : \A c \in CategorySet :
              (all_results[key] # 0 /\ heap[all_results[key]][c].present)
                  => heap[all_results[key]][c].score \in 0..100

\* C10: contributions are evaluated and merged one at a time in the order of
\* evaluation_methods and, within the template method, of selected_templates
Before(a, b) == a.mi < b.mi \/ (a.mi = b.mi /\ a.ti < b.ti)

C10_CallerOrder ==
    /\ \A i \in 1..Len(log) :
          /\ log[i].mi \in 1..Len(methods)
          /\ IF log[i].key = "basic"
             THEN methods[log[i].mi] = "basic"
             ELSE /\ methods[log[i].mi] = "template"
                  /\ log[i].ti \in 1..Len(templates)
                  /\ log[i].key = TemplateKey(templates[log[i].ti])
    /\ \A i \in 1..Len(log) : \A j \in 1..Len(log) :
          i < j => Before(log[i], log[j])
    /\ pc \in {"basic_category", "basic_merge", "template_category",
                "template_merge"}
          => \A i \in 1..Len(log) :
                Before(log[i], [mi |-> mi,
                                ti |-> IF methods[mi] = "basic" THEN 0 ELSE ti])

C10_Witness ==
    /\ Len(log) = 3
    /\ log[1].key = "template_1" /\ log[2].key = "template_2"
    /\ log[3].key = "basic"
    /\ result.returned

-----------------------------------------------------------------------------

\* C12: a returned result of a job that ran the basic method on a text that
\* passed the extraction check has an entry for each of the six categories.
C12_BasicCoversAllSix ==
    (/\ result.returned
     /\ textLen >= MinExtractChars
     /\ \E i \in 1..Len(methods) : methods[i] = "basic")
    => \A c \in CategorySet : combined[c] # 0
\* C13: an extracted text shorter than the extraction minimum ends the
\* request as an extraction failure with the record FAILED; the evaluation
\* is never entered
\* (its timer is never started), no category is evaluated and no model
\* request is made.
C13_ShortTextRejected ==
    textLen \in 0..(MinExtractChars - 1) =>
        /\ pc \in {"extract", "done"}
        /\ timer = "idle"
        /\ lastRun = NoRun
        /\ heap = <<>>
        /\ ~result.returned
        /\ (pc = "done" /\ RecordExists)
               => /\ evaluation.status = "failed"
                  /\ evaluation.error = "extraction"
                  /\ ~evaluation.evaluation_results

C13_Witness ==
    /\ textLen < MinExtractChars
    /\ textLen > 0
    /\ pc = "done"
    /\ evaluation.status = "failed"
    /\ evaluation.error = "extraction"
\* the categories that have an entry in a set of category results
PresentIn(results) == {c \in CategorySet : results[c].present}

\* the categories of a prompt map
KeySet(keys) == {keys[i] : i \in 1..Len(keys)}

\* C14: a template whose prompt map has key set K is evaluated over exactly K:
\* while its loop runs only categories of K have been evaluated, the
\* contribution stored under all_results['template_<id>'] has key set K, and
\* the merge makes that contribution the holder of categories of K only.
C14_TemplateEvaluatesItsKeys ==
    /\ pc \in {"template_category", "template_merge"} =>
           /\ PresentIn(partial) \subseteq KeySet(curKeys)
           /\ pc = "template_merge" => PresentIn(partial) = KeySet(curKeys)
    /\ \A k \in 1..Len(log) :
           log[k].key # "basic" =>
               /\ PresentIn(produced[k]) = KeySet(log[k].keys)
               /\ PresentIn(heap[k]) = KeySet(log[k].keys)
               /\ \A c \in CategorySet :
                      combined[c] = k => c \in KeySet(log[k].keys)
               /\ all_results[log[k].key] # 0
               /\ PresentIn(heap[all_results[log[k].key]])
                      = KeySet(log[all_results[log[k].key]].keys)

C14_Witness ==
    \E k \in 1..Len(log) :
        /\ log[k].key = "template_1"
        /\ all_results["template_1"] = k
        /\ KeySet(log[k].keys) = {"plot", "line-editing"}
        /\ PresentIn(heap[k]) = {"plot", "line-editing"}
        /\ result.returned
\* pass t of the template loop of method i merged a contribution
Merged(i, t) == \E j \in 1..Len(log) : log[j].mi = i /\ log[j].ti = t

\* pass t of the template loop of method i passed over its template
Skipped(i, t) ==
    \E k \in 1..Len(skipped) : skipped[k].mi = i /\ skipped[k].ti = t

\* C15: a template that could not be looked up, read or parsed is passed
\* over and nothing else: it has no contribution and no all_results entry,
\* every other pass of the method and template loops is accounted for by a
\* contribution (or a skip of its own), and without a timeout the job
\* returns its result.
C15_SkippedTemplateOnly ==
    /\ \A k \in 1..Len(skipped) :
           /\ ~Merged(skipped[k].mi, skipped[k].ti)
           /\ all_results[TemplateKey(skipped[k].id)] = 0
                  \/ \E j \in 1..Len(log) :
                         /\ log[j].key = TemplateKey(skipped[k].id)
                         /\ <<log[j].mi, log[j].ti>>
                                # <<skipped[k].mi, skipped[k].ti>>
    /\ (pc = "final_check" \/ result.returned) =>
           \A i \in 1..Len(methods) :
               /\ (methods[i] = "basic" /\ textLen >= MinEvalChars)
                      => Merged(i, 0)
               /\ (methods[i] = "template")
                      => \A t \in 1..Len(templates) :
                             Merged(i, t) # Skipped(i, t)
    /\ (pc \in {"caller", "done"} /\ textLen >= MinExtractChars
           /\ outcome # "timeout")
        => result.returned

C15_Witness ==
    /\ result.returned
    /\ \E k \in 1..Len(skipped) :
           /\ skipped[k].ti = 1
           /\ skipped[k].why = "parse_error"
           /\ all_results[TemplateKey(skipped[k].id)] = 0
           /\ Merged(skipped[k].mi, 2)
    /\ \E j \in 1..Len(log) : log[j].key = "basic"
\* the status values of a category result that mark it as synthetic: none of
\* "completed", "failed" or a missing key, which real results carry too
Distinguishing(status) == status \notin {"completed", "failed", "none", ""}

\* C16: without a model client every category result produced, by the basic
\* method or by a template, has the fixed score of its category and is
\* signalled, by a distinguishing status in the result or by a log event at
\* its production.
C16_SyntheticSignalled ==
    ~hasClient =>
        \A k \in 1..Len(log) : \A c \in PresentIn(produced[k]) :
            /\ \A j \in 1..Len(log) :
                   (c \in PresentIn(produced[j])
                       /\ (log[j].key = "basic") = (log[k].key = "basic"))
                   => produced[j][c].score = produced[k][c].score
            /\ Distinguishing(produced[k][c].status) \/ log[k].mockLogged
\* C17: a category evaluation whose answered request returned text that is
\* not JSON gives a result whose summary is the raw text and whose score is
\* the number found next to 'score' in it (0 when there is none).
C17_NonJsonScanned ==
    (/\ lastRun.path = "basic"
     /\ lastRun.requests > 0
     /\ lastRun.script[lastRun.requests].kind = "text")
    => /\ lastRun.result.present
       /\ lastRun.result.summary = "raw"
       /\ lastRun.result.score = lastRun.script[lastRun.requests].score
\* the sheets of the workbook that have cell text
\* the name of sheet i as the extracted text carries it, and its rows as a
\* prompt: whitespace-normalised, lines that start with '===' left out
SheetName(i) == JoinWords(workbook[i].name)
SheetPrompt(i) == CleanPromptContent(CleanText(SheetText(workbook[i])))

FilledSheets == {i \in 1..Len(workbook) : workbook[i].body # <<>>}

\* a keyword of the category at position m of the table occurs in the
\* lowercased name
NameMatches(name, m) ==
    \E k \in 1..Len(category_mapping[m].keywords) :
        Contains(LowerSeq(name), category_mapping[m].keywords[k])

\* the name matches some category
NameMatchesAny(name) == \E m \in 1..Len(category_mapping) : NameMatches(name, m)

\* the earliest category of the table that the name matches
EarliestCategory(name) ==
    category_mapping[CHOOSE m \in 1..Len(category_mapping) :
                        /\ NameMatches(name, m)
                        /\ \A j \in 1..(m - 1) : ~NameMatches(name, j)].category

\* the filled sheets whose name matches
MatchedSheets == {i \in FilledSheets : NameMatchesAny(SheetName(i))}

\* C18: when the name of at least one sheet matches a category, the keys of
\* the returned prompt map are exactly the categories matched by sheets, each
\* once; the other categories are absent, not filled in with defaults.
C18_OnlyMatchedCategories ==
    (resolved /\ MatchedSheets # {}) =>
        /\ KeySet(prompts.keys)
               = {EarliestCategory(SheetName(i)) : i \in MatchedSheets}
        /\ Cardinality(KeySet(prompts.keys)) = Len(prompts.keys)
        /\ Len(prompts.text) = Len(prompts.keys)

\* C19: when no sheet with cell text has a name that matches a category (a
\* workbook without any such sheet included), the returned prompt map has the
\* six categories as keys, each with the default prompt of that category.
C19_DefaultsWhenNoMatch ==
    (resolved /\ MatchedSheets = {}) =>
        /\ prompts.keys = Categories
        /\ Len(prompts.text) = Len(Categories)
        /\ \A i \in 1..Len(Categories) :
               prompts.text[i] = CategoryPrompts[Categories[i]]

\* C20: a sheet gives its body to one category only, the earliest of the
\* table that its name matches: that category is a key, its prompt is the
\* cleaned body of a sheet assigned to it, and a later category that the
\* name also matches is a key only if another sheet is assigned to it.
C20_EarliestCategoryWins ==
    resolved =>
        \A i \in MatchedSheets :
            LET first == EarliestCategory(SheetName(i)) IN
            /\ \E k \in 1..Len(prompts.keys) :
                   /\ prompts.keys[k] = first
                   /\ \E j \in MatchedSheets :
                          /\ EarliestCategory(SheetName(j)) = first
                          /\ prompts.text[k] = SheetPrompt(j)
            /\ \A m \in 1..Len(category_mapping) :
                   (/\ NameMatches(SheetName(i), m)
                    /\ category_mapping[m].category # first
                    /\ category_mapping[m].category \in KeySet(prompts.keys))
                   => \E j \in MatchedSheets :
                          /\ j # i
                          /\ EarliestCategory(SheetName(j))
                                 = category_mapping[m].category

\* C21: for as long as it is in the table, the record is PROCESSING from its
\* creation until the request returns, is COMPLETED or FAILED when the
\* request has returned, whatever the path, and once COMPLETED or FAILED its
\* status does not change (the owner may delete the record).
C21_StatusMachine ==
    /\ [](RecordExists
            => /\ evaluation.status \in {"processing", "completed", "failed"}
               /\ pc = "done" <=> evaluation.status \in {"completed", "failed"})
    /\ [][evaluation.status \in {"completed", "failed"}
             => \/ evaluation'.status = evaluation.status
                \/ evaluation' = DeletedRecord]_vars
    /\ [][evaluation = DeletedRecord => evaluation' = DeletedRecord]_vars

C21_Witness ==
    /\ pc = "done"
    /\ evaluation.status = "failed"
    /\ evaluation.error = "report"
\* the score columns of a record with a in the first category, b in the
\* second and nothing else
TwoColumns(a, b) ==
    [c \in CategorySet |->
        IF c = Categories[1] THEN <<a>>
        ELSE IF c = Categories[2] THEN <<b>> ELSE <<>>]

\* C22: the three rounding sites agree, ties included: the merged score of a
\* category with two contributions a and b is what the overall score of
\* categories {a, b} is and what calculate_overall_score gives for columns
\* {a, b}; and for a stored result with two categories the returned and the
\* persisted overall score are the merge of the two.
C22_OneRoundingPolicy ==
    /\ \A c \in CategorySet :
           LET s == ContributionsFrom(c, 1) IN
           (combined[c] # 0 /\ Len(s) = 2) =>
               /\ CombinedScore(c) = OverallScore(s)
               /\ <<CombinedScore(c)>>
                      = CalculateOverallScore(TwoColumns(s[1], s[2]), <<>>)
    /\ (evaluation.evaluation_results /\ ScoresFrom(1) # <<>>) =>
           LET scores == ScoresFrom(1) IN
           /\ evaluation.overall_score = <<result.overall_score>>
           /\ Len(scores) = 2 =>
                  result.overall_score = MergeScore(scores[1], scores[2])

C22_Witness ==
    /\ evaluation.status = "completed"
    /\ ScoresFrom(1) # <<>>
    /\ (2 * SumSeq(ScoresFrom(1))) % (2 * Len(ScoresFrom(1)))
           = Len(ScoresFrom(1))
    /\ \E c \in CategorySet :
           LET s == ContributionsFrom(c, 1) IN
           /\ combined[c] # 0
           /\ Len(s) = 2
           /\ (s[1] + s[2]) % 2 = 1
\* C24: for a record that ends COMPLETED, the persisted overall_score column
\* holds the overall_score of the returned result, a job without any
\* category included.
C24_PersistedOverallEqualsResult ==
    evaluation.status = "completed" =>
        evaluation.overall_score = <<result.overall_score>>
\* C23: with a model client configured, a category evaluated on the template
\* path has sent at least one request and its result is built from the
\* response or is the failed result, never the mock result.
C23_NoMockWithClient ==
    (hasClient /\ lastRun.path = "template") =>
        /\ lastRun.requests >= 1
        /\ lastRun.result.summary # "mock"
\* the first contribution that has category c
FirstContributor(c) ==
    CHOOSE k \in 1..Len(produced) :
        /\ produced[k][c].present
        /\ \A j \in 1..(k - 1) : ~produced[j][c].present

\* C25: the combined entry of a category is the entry of the first method
\* that contributed it, with its summary and status as that method produced
\* them; later contributions change its score and nothing else.
C25_MergeChangesScoreOnly ==
    /\ \A c \in CategorySet :
           combined[c] # 0 =>
               /\ combined[c] = FirstContributor(c)
               /\ heap[combined[c]][c].summary
                      = produced[FirstContributor(c)][c].summary
               /\ heap[combined[c]][c].status
                      = produced[FirstContributor(c)][c].status
    /\ \A k \in 1..Len(heap) : \A c \in CategorySet :
           heap[k][c] = [produced[k][c] EXCEPT !.score = heap[k][c].score]

C25_Witness ==
    \E c \in CategorySet : \E k \in 1..Len(produced) :
        /\ combined[c] # 0
        /\ k > combined[c]
        /\ produced[k][c].present
        /\ produced[k][c].summary # heap[combined[c]][c].summary
        /\ produced[k][c].status # heap[combined[c]][c].status
        /\ heap[combined[c]][c].score # produced[combined[c]][c].score
\* C26: a failed category result has score 0 and counts like any other: the
\* combined score of its category is the fold over all contributions, the 0
\* included, and the returned overall_score is the rounded mean over every
\* populated category, those holding a failed result included.
C26_FailedCounted ==
    /\ \A c \in CategorySet : \A k \in 1..Len(produced) :
           (produced[k][c].present /\ produced[k][c].status = "failed") =>
               LET s == ContributionsFrom(c, 1) IN
               /\ produced[k][c].score = 0
               /\ combined[c] # 0
               /\ CombinedScore(c) = FoldFrom(s, 2, s[1])
               /\ Len(s) = 2 => 2 * CombinedScore(c) \in
                                    {s[1] + s[2] - 1, s[1] + s[2], s[1] + s[2] + 1}
    /\ result.returned =>
           LET scores == ScoresFrom(1) IN
           /\ Len(scores) = Cardinality({c \in CategorySet : combined[c] # 0})
           /\ scores # <<>> =>
                  NearestEven(result.overall_score, SumSeq(scores), Len(scores))

C26_Witness ==
    /\ result.returned
    /\ \E c \in CategorySet : \E k \in 1..Len(produced) :
           LET s == ContributionsFrom(c, 1) IN
           /\ produced[k][c].present
           /\ produced[k][c].status = "failed"
           /\ Len(s) = 2
           /\ s[1] + s[2] > 0
           /\ 2 * CombinedScore(c) = s[1] + s[2]
           /\ heap[combined[c]][c].status = "failed"
\* a method that starts no evaluation step
Idle(i) ==
    /\ methods[i] # "basic"
    /\ methods[i] = "template" => templates = <<>>

\* C27: a method name other than basic or template, and template with an
\* empty template list, evaluate and merge nothing; a job made only of such
\* methods evaluates no category, and unless it timed out it returns
\* categories {}, overall_score 0 and all_results {}, which are stored, the
\* record ending COMPLETED once the report is generated.
C27_IdleMethods ==
    /\ \A k \in 1..Len(log) : ~Idle(log[k].mi)
    /\ \A k \in 1..Len(skipped) : ~Idle(skipped[k].mi)
    /\ (\A i \in 1..Len(methods) : Idle(i)) =>
           /\ lastRun = NoRun
           /\ heap = <<>>
           /\ \A c \in CategorySet : combined[c] = 0
           /\ \A key \in MethodKeys : all_results[key] = 0
           /\ outcome \in {"none", "returned", "timeout"}
           /\ result.returned => result.overall_score = 0
           /\ (pc = "done" /\ textLen >= MinExtractChars
                  /\ outcome # "timeout")
                  => /\ result.returned
                     /\ RecordExists
                            => /\ evaluation.evaluation_results
                               /\ evaluation.status = "completed"
                                      \/ evaluation.error = "report"

C27_Witness ==
    /\ methods = <<"custom", "template">>
    /\ templates = <<>>
    /\ pc = "done"
    /\ result.returned
    /\ evaluation.status = "completed"
\* C28: whatever the model service answers, _evaluate_category returns a
\* result after one request per answer or exception it met, three at most,
\* and it has waited once after every failed attempt but the third.
C28_CategoryTerminates ==
    lastRun.path = "basic" =>
        /\ lastRun.result.present
        /\ lastRun.requests \in 1..max_retries
        /\ lastRun.requests = Len(lastRun.script)
        /\ \A i \in 1..(lastRun.requests - 1) : lastRun.script[i] = Raise
        /\ Len(lastRun.sleeps) =
               Cardinality({i \in 1..lastRun.requests :
                               lastRun.script[i] = Raise /\ i < max_retries})
        /\ lastRun.script[lastRun.requests] = Raise
               => /\ lastRun.requests = max_retries
                  /\ lastRun.result.status = "failed"

C28_Witness ==
    /\ lastRun.path = "basic"
    /\ lastRun.script = <<Raise, Raise, Raise>>
    /\ lastRun.requests = 3
    /\ Len(lastRun.sleeps) = 2
    /\ lastRun.result.status = "failed"
\* C29: once perform_multi_method_evaluation has exited, by return or by
\* exception, its timer is not waiting any more, and from then on neither the
\* timer nor the timeout flag changes.  (Fails: a timer thread that is past
\* its test of the cancellation event when cancel() runs still calls the
\* handler, which sets the flag of the finished call.)
C29_TimerCancelledOnExit ==
    /\ [](pc \in {"caller", "done"} => timer # "armed")
    /\ [][(pc \in {"caller", "done"})
             => (timer' = timer /\ timeout_occurred' = timeout_occurred)]_vars


\* the filled sheets assigned to a category
SheetsOf(category) ==
    {i \in MatchedSheets : EarliestCategory(SheetName(i)) = category}

\* the last sheet of a non-empty set, in workbook order
LastSheet(S) == CHOOSE i \in S : \A j \in S : j <= i

\* C30: when several sheets of a workbook are assigned to the same category,
\* the prompt of that category is the cleaned body of the last of them in
\* workbook order, and of that sheet alone.
C30_LastMatchingSheetWins ==
    resolved =>
        \A k \in 1..Len(category_mapping) :
            LET category == category_mapping[k].category IN
            Cardinality(SheetsOf(category)) >= 2 =>
                \E n \in 1..Len(prompts.keys) :
                    /\ prompts.keys[n] = category
                    /\ prompts.text[n]
                           = SheetPrompt(LastSheet(SheetsOf(category)))

=============================================================================
